---------------------------- MODULE Spec2Model ----------------------------
(***************************************************************************)
(* Model of dog_dash:                                                      *)
(*   - the struct-of-arrays ParticleSystem (particles.ts),                 *)
(*   - the linear-memory collision module (assembly/index.ts), and         *)
(*   - the animation frame of main.ts that drives both.                    *)
(*                                                                         *)
(* Fixed-point units of the particle model (all arithmetic is exact):      *)
(*   time      1 tick  = 1/4 s                                             *)
(*   position  1 unit  = 1/8 world unit                                    *)
(*   velocity  1 unit  = 1/2 world unit per second                         *)
(*   size      1 unit  = 1/5                                               *)
(*   colour    1 unit  = 1/255                                             *)
(*   random    1 unit  = 1/2   (a draw r stands for Math.random() = r/2)   *)
(* so that  position += velocity * delta  is  pos + vel * ticks,           *)
(*          velocityY -= 2.0 * delta       is  vel - ticks,                *)
(*          life = 0.5 + random * 0.5      is  2 + r ticks.                *)
(* The cosmetic _dummy.rotation accumulator is not a particle attribute    *)
(* and is left out of the published matrix.                                *)
(***************************************************************************)
EXTENDS Integers, Sequences, FiniteSets, TLC

VARIABLES
    ps,                   \* the ParticleSystem object (particles.ts)
    color,                \* the module-level scratch colour _color
    plog,                 \* history of the last ParticleSystem call
    asteroidsPtr,         \* assembly/index.ts globals
    asteroidsCapacity,
    sporeCloudsPtr,
    sporeCloudsCapacity,
    memory,               \* the linear memory, one f32 per word
    heap,                 \* blocks handed out by heap.alloc / heap.realloc
    wlog,                 \* history of the last call into the module
    obstacles,            \* main.ts: the asteroid list
    player,               \* main.ts: the player object, NoPlayer until loaded
    wasmExports,          \* main.ts: TRUE once loadWasm has set the exports
    wasmMemory,           \* main.ts: the Float32Array view of the memory
    playerState,          \* main.ts: health, invincibility, moon distance, win
    levelManager,         \* main.ts: the LevelManager object
    heart,                \* geological.ts: the userData of a Magma Heart
    hlog,                 \* history of the last updateMagmaHeart call
    legacy,               \* particles.js: the array-based ParticleSystem
    llog,                 \* history of the last call of it
    dlog                  \* history of the last animation frame

pvars == <<ps, color, plog>>
wvars == <<asteroidsPtr, asteroidsCapacity, sporeCloudsPtr, sporeCloudsCapacity,
           memory, heap, wlog>>
dvars == <<obstacles, player, wasmExports, wasmMemory, playerState, levelManager,
           dlog>>
gvars == <<heart, hlog, legacy, llog>>
vars == <<ps, color, plog, asteroidsPtr, asteroidsCapacity, sporeCloudsPtr,
          sporeCloudsCapacity, memory, heap, wlog,
          obstacles, player, wasmExports, wasmMemory, playerState, levelManager,
          dlog, heart, hlog, legacy, llog>>

----------------------------------------------------------------------------
(* Bounds of the particle model *)

MaxParticles == 3

\* frame times handed to update, in ticks
Deltas == {0, 2}

GRAVITY == 2

Idx == 0 .. (MaxParticles - 1)

Min(a, b) == IF a < b THEN a ELSE b

----------------------------------------------------------------------------
(* Inputs of emit: the caller's arguments and the Math.random() draws *)

\* the colour handed to emit, as the <<r, g, b>> bytes of the hex value 0xff5555
HexColors == { <<255, 85, 85>> }

\* origins handed to emit, in world units
Origins == { <<1, 2, 0>> }

\* the nine Math.random() results one particle consumes, in halves
\* (jx, jy, jz: jitter; vx, vy, vz: direction; s: speed; l: life; z: size)
RandomDraws ==
    { [jx |-> 1, jy |-> 1, jz |-> 1, vx |-> 1, vy |-> 1, vz |-> 1, s |-> 0, l |-> 0, z |-> 1],
      [jx |-> 0, jy |-> 1, jz |-> 1, vx |-> 1, vy |-> 0, vz |-> 1, s |-> 1, l |-> 1, z |-> 0] }

\* Math.sqrt on the perfect squares the draws produce
Sqrt(n) == CHOOSE k \in 0 .. n : k * k = n

----------------------------------------------------------------------------
(* ParticleSystem: constructor *)

ZeroArr == [i \in Idx |-> 0]

ZeroMatrix == [x |-> 0, y |-> 0, z |-> 0, scaleNum |-> 0, scaleDen |-> 1]

NewParticleSystem ==
    [ maxParticles |-> MaxParticles,
      count        |-> 0,
      positionX |-> ZeroArr, positionY |-> ZeroArr, positionZ |-> ZeroArr,
      velocityX |-> ZeroArr, velocityY |-> ZeroArr, velocityZ |-> ZeroArr,
      life      |-> ZeroArr, maxLife   |-> ZeroArr,
      size      |-> ZeroArr,
      colorR    |-> ZeroArr, colorG    |-> ZeroArr, colorB    |-> ZeroArr,
      meshCount      |-> MaxParticles,
      instanceMatrix |-> [i \in Idx |-> ZeroMatrix],
      instanceColor  |-> [i \in Idx |-> <<0, 0, 0>>] ]

\* history of the last call, kept only to state the properties; age is the
\* time each live slot's particle has been updated for since its emit
NoLog ==
    [ op |-> "new", n |-> 0, delta |-> 0, count0 |-> 0,
      src |-> [i \in Idx |-> i], decs |-> ZeroArr, iters |-> 0,
      written |-> {}, minRead |-> 0, movedDied |-> FALSE,
      age |-> ZeroArr ]

----------------------------------------------------------------------------
(* ParticleSystem.emit *)

\* the life a new particle is given: 0.5 + Math.random() * 0.5
EmitLifeFromZero(d) == d.l

EmitLife(d) == 2 + d.l

\* the body of one iteration of emit's loop, after the capacity test
EmitBody(p, c, pos, speed, size, spread, d) ==
    LET index == p.count
        vx  == d.vx - 1
        vy  == d.vy - 1
        vz  == d.vz - 1
        l0  == Sqrt(vx * vx + vy * vy + vz * vz)
        len == IF l0 = 0 THEN 1 ELSE l0      \* Math.sqrt(...) || 1
        s   == (speed * (2 + d.s)) \div 2
        life == EmitLife(d)
    IN  [ p EXCEPT
            !.count = index + 1,
            !.positionX[index] = 8 * pos[1] + 4 * (d.jx - 1) * spread,
            !.positionY[index] = 8 * pos[2] + 4 * (d.jy - 1) * spread,
            !.positionZ[index] = 8 * pos[3] + 4 * (d.jz - 1) * spread,
            !.velocityX[index] = (vx \div len) * s,
            !.velocityY[index] = (vy \div len) * s,
            !.velocityZ[index] = (vz \div len) * s,
            !.colorR[index] = c[1],
            !.colorG[index] = c[2],
            !.colorB[index] = c[3],
            !.life[index] = life,
            !.maxLife[index] = life,
            !.size[index] = (size * (4 + d.z)) \div 5 ]

\* if (this.count >= this.maxParticles)
IsFullOffByOne(p) == p.count > p.maxParticles

IsFull(p) == p.count >= p.maxParticles

\* for (let i = 0; i < count; i++) { if full return; ... }
RECURSIVE EmitLoop(_, _, _, _, _, _, _, _, _)
EmitLoop(p, c, i, count, pos, speed, size, spread, draws) ==
    IF i < count
    THEN IF IsFull(p)
         THEN p
         ELSE EmitLoop(EmitBody(p, c, pos, speed, size, spread, draws[i + 1]),
                       c, i + 1, count, pos, speed, size, spread, draws)
    ELSE p

\* the number of iterations of emit's loop that pass the capacity test, each
\* of which consumes one group of Math.random() results
RECURSIVE Spawned(_, _, _)
Spawned(p, i, count) ==
    IF i < count /\ ~IsFull(p)
    THEN Spawned([ p EXCEPT !.count = @ + 1 ], i + 1, count)
    ELSE i

Emit ==
    \E pos \in Origins, hex \in HexColors, n \in 0 .. (MaxParticles + 1),
       speed \in {2}, size \in {5}, spread \in {2} :
      \E draws \in [1 .. Spawned(ps, 0, n) -> RandomDraws] :
        /\ color' = hex
        /\ ps' = EmitLoop(ps, hex, 0, n, pos, speed, size, spread, draws)
        /\ plog' = [ NoLog EXCEPT !.op = "emit", !.n = n, !.count0 = ps.count,
                                   !.age = plog.age ]
        /\ UNCHANGED <<wvars, dvars, gvars>>

----------------------------------------------------------------------------
(* ParticleSystem.update *)

\* _dummy.position.set, _dummy.scale.setScalar, _dummy.updateMatrix
ComposeMatrix(p, i) ==
    [ x |-> p.positionX[i], y |-> p.positionY[i], z |-> p.positionZ[i],
      scaleNum |-> p.size[i] * p.life[i], scaleDen |-> p.maxLife[i] ]

\* the swap: slot i receives every attribute of slot last
CopyParticleWithoutSize(p, i, last) ==
    [ p EXCEPT
        !.positionX[i] = p.positionX[last],
        !.positionY[i] = p.positionY[last],
        !.positionZ[i] = p.positionZ[last],
        !.velocityX[i] = p.velocityX[last],
        !.velocityY[i] = p.velocityY[last],
        !.velocityZ[i] = p.velocityZ[last],
        !.life[i]      = p.life[last],
        !.maxLife[i]   = p.maxLife[last],
        !.colorR[i]    = p.colorR[last],
        !.colorG[i]    = p.colorG[last],
        !.colorB[i]    = p.colorB[last] ]

CopyParticle(p, i, last) ==
    [ p EXCEPT
        !.positionX[i] = p.positionX[last],
        !.positionY[i] = p.positionY[last],
        !.positionZ[i] = p.positionZ[last],
        !.velocityX[i] = p.velocityX[last],
        !.velocityY[i] = p.velocityY[last],
        !.velocityZ[i] = p.velocityZ[last],
        !.life[i]      = p.life[last],
        !.maxLife[i]   = p.maxLife[last],
        !.size[i]      = p.size[last],
        !.colorR[i]    = p.colorR[last],
        !.colorG[i]    = p.colorG[last],
        !.colorB[i]    = p.colorB[last] ]

\* the index the loop continues at after a death: i-- then the loop's i++
NextIndexSkipping(i) == i + 1

NextIndexAfterDeath(i) == (i - 1) + 1

\* if (this.life[i] <= 0)
IsDeadStrict(life) == life < 0

IsDead(life) == life <= 0

\* this.life[i] -= delta
AgeLifeUpwards(life, delta) == life + delta

AgeLife(life, delta) == life - delta

\* this.mesh.count = this.count
PublishCountStale(p) == p

PublishCount(p) == [ p EXCEPT !.meshCount = p.count ]

\* one iteration of update's loop at index s.i, with the loop's i++
\* s = [p: the object, c: _color, i: loop index, g: history]
UpdateIter(s, delta) ==
    LET i  == s.i
        p1 == [ s.p EXCEPT !.life[i] = AgeLife(@, delta) ]
        g1 == [ s.g EXCEPT !.decs[s.g.src[i]] = @ + 1,
                           !.iters = @ + 1,
                           !.minRead = Min(@, i),
                           !.age[i] = @ + delta ]
    IN  IF IsDead(p1.life[i])
        THEN LET last == p1.count - 1
                 p2 == IF i < last THEN CopyParticle(p1, i, last) ELSE p1
                 g1d == [ g1 EXCEPT !.movedDied = @ \/ (g1.src[i] # i) ]
                 g2 == IF i < last
                       THEN [ g1d EXCEPT !.src[i] = g1.src[last],
                                         !.age[i] = g1.age[last], !.age[last] = 0 ]
                       ELSE [ g1d EXCEPT !.age[i] = 0 ]
             IN  [ s EXCEPT !.p = [ p2 EXCEPT !.count = last ],
                            !.g = g2,
                            !.i = NextIndexAfterDeath(i) ]
        ELSE LET p2 == [ p1 EXCEPT
                           !.positionX[i] = @ + p1.velocityX[i] * delta,
                           !.positionY[i] = @ + p1.velocityY[i] * delta,
                           !.positionZ[i] = @ + p1.velocityZ[i] * delta ]
                 p3 == [ p2 EXCEPT !.velocityY[i] = @ - (GRAVITY * delta) \div 2 ]
                 c1 == << p3.colorR[i], p3.colorG[i], p3.colorB[i] >>
                 p4 == [ p3 EXCEPT !.instanceMatrix[i] = ComposeMatrix(p3, i),
                                   !.instanceColor[i]  = c1 ]
             IN  [ s EXCEPT !.p = p4,
                            !.c = c1,
                            !.g = [ g1 EXCEPT !.written = @ \cup {i} ],
                            !.i = i + 1 ]

RECURSIVE UpdateLoop(_, _)
UpdateLoop(s, delta) ==
    IF s.i < s.p.count
    THEN CHOOSE r \in { UpdateLoop(n, delta) : n \in { UpdateIter(s, delta) } } : TRUE
    ELSE s

Update ==
    \E delta \in Deltas :
      LET s0 == [ p |-> ps, c |-> color, i |-> 0,
                  g |-> [ NoLog EXCEPT !.op = "update", !.delta = delta,
                                       !.count0 = ps.count, !.age = plog.age ] ]
          s1 == UpdateLoop(s0, delta)
      IN  /\ ps' = PublishCount(s1.p)
          /\ color' = s1.c
          /\ plog' = s1.g
          /\ UNCHANGED <<wvars, dvars, gvars>>

----------------------------------------------------------------------------

(* assembly/index.ts: the collision module and its linear memory *)

\* size of the modelled linear memory, in 4-byte words
MemWords == 10

\* record counts handed to the module; 357913942 * 12 and 268435457 * 16
\* exceed 2^32
AsteroidCounts == {0, 1, 2, 357913942}
SporeCounts == {0, 1, 268435457}

\* indices the host writes records at
WriteIndices == 0 .. 1

\* (x, y, radius) records the host writes, and (x, y, radius) queries
AsteroidRecords == { <<0, 0, 1>>, <<4, 0, 1>> }
AsteroidQueries == { <<0, 0, 1>>, <<4, 0, 1>>, <<3, 0, 2>> }

\* (x, y, z, radius) records and queries of the spore clouds
SporeRecords == { <<0, 0, 0, 1>>, <<0, 0, 4, 1>> }
SporeQueries == { <<0, 0, 0, 1>>, <<0, 0, 3, 2>> }

\* const requiredBytes = count * 12, an i32 product handed to heap.alloc as
\* usize; in words: (count * 12 mod 2^32) / 4 = count * 3 mod 2^30
AsteroidWords(count) ==
    LET a == count % 1073741824
        b == (a + a) % 1073741824
    IN  (b + a) % 1073741824

\* const requiredBytes = count * 16; in words: count * 4 mod 2^30
SporeWords(count) == (count % 268435456) * 4

\* addresses at which a block of the given size fits beside the blocks of hp
\* (never address 0)
FreeFits(hp, words) ==
    { 4 * k : k \in { j \in 1 .. (MemWords - 1) :
                        /\ j + words <= MemWords
                        /\ \A b \in hp : \/ j + words <= b.ptr \div 4
                                         \/ b.ptr \div 4 + b.words <= j } }

\* the places the allocator is let to choose from: the lowest and the
\* highest address at which the block fits
Places(hp, words) ==
    { p \in FreeFits(hp, words) :
        \/ \A o \in FreeFits(hp, words) : p <= o
        \/ \A o \in FreeFits(hp, words) : p >= o }

\* heap.alloc(size): a fresh block at a free place, or a trap when the
\* memory has no room
HeapAlloc(hp, mem, words) ==
    IF Places(hp, words) = {}
    THEN { [trap |-> TRUE, ptr |-> 0, heap |-> hp, memory |-> mem] }
    ELSE { [trap |-> FALSE, ptr |-> p, heap |-> hp \cup { [ptr |-> p, words |-> words] },
            memory |-> mem] : p \in Places(hp, words) }

\* heap.realloc(ptr, size): the block resized in place or moved with its
\* contents, or a trap when the memory has no room
HeapRealloc(hp, mem, ptr, words) ==
    LET old   == CHOOSE b \in hp : b.ptr = ptr
        rest  == hp \ {old}
        keep  == Min(old.words, words)
        moved(p) == [ w \in 0 .. (MemWords - 1) |->
                        IF p \div 4 <= w /\ w < p \div 4 + keep
                        THEN mem[ptr \div 4 + (w - p \div 4)]
                        ELSE mem[w] ]
        inPlace == IF ptr \in FreeFits(rest, words)
                   THEN { [trap |-> FALSE, ptr |-> ptr,
                           heap |-> rest \cup { [ptr |-> ptr, words |-> words] },
                           memory |-> mem] }
                   ELSE {}
        away == { [trap |-> FALSE, ptr |-> p,
                   heap |-> rest \cup { [ptr |-> p, words |-> words] },
                   memory |-> moved(p)] : p \in Places(hp, words) }
    IN  IF inPlace \cup away = {}
        THEN { [trap |-> TRUE, ptr |-> ptr, heap |-> hp, memory |-> mem] }
        ELSE inPlace \cup away

\* if (count > asteroidsCapacity)
NeedsGrowthOrEqual(count, capacity) == count >= capacity

NeedsGrowth(count, capacity) == count > capacity

\* asteroidsCapacity = count, inside the if
NewCapacityAlways(count, capacity) == count

NewCapacityStale(count, capacity) == capacity

NewCapacity(count, capacity) == IF count > capacity THEN count ELSE capacity

\* the body shared by allocAsteroids and allocSporeClouds: the outcomes
\* [trap, ptr, capacity, heap, memory, heapCalls] of a call
AllocOutcomes(count, words, ptr, capacity, hp, mem) ==
    IF NeedsGrowth(count, capacity)
    THEN LET res == IF capacity = 0 THEN HeapAlloc(hp, mem, words)
                                    ELSE HeapRealloc(hp, mem, ptr, words)
         IN  { IF r.trap
               THEN [trap |-> TRUE, ptr |-> ptr, capacity |-> capacity,
                     heap |-> hp, memory |-> mem, heapCalls |-> 1]
               ELSE [trap |-> FALSE, ptr |-> r.ptr,
                     capacity |-> NewCapacity(count, capacity),
                     heap |-> r.heap, memory |-> r.memory, heapCalls |-> 1] : r \in res }
    ELSE { [trap |-> FALSE, ptr |-> ptr, capacity |-> NewCapacity(count, capacity),
            heap |-> hp, memory |-> mem, heapCalls |-> 0] }

\* history of the last call into the module
NoCall ==
    [ fn |-> "none", count |-> 0, q |-> <<0, 0, 0, 0>>, trap |-> FALSE, value |-> 0,
      loads |-> 0, heapCalls |-> 0, ptr0 |-> 0, cap0 |-> 0,
      astBase |-> 0, prevAstBase |-> 0 ]

AllocAsteroids ==
    \E count \in AsteroidCounts :
      \E r \in AllocOutcomes(count, AsteroidWords(count), asteroidsPtr,
                             asteroidsCapacity, heap, memory) :
        /\ asteroidsPtr' = r.ptr
        /\ asteroidsCapacity' = r.capacity
        /\ heap' = r.heap
        /\ memory' = r.memory
        /\ wlog' = [ NoCall EXCEPT !.fn = "allocAsteroids", !.count = count,
                                   !.trap = r.trap, !.value = r.ptr,
                                   !.heapCalls = r.heapCalls,
                                   !.ptr0 = asteroidsPtr, !.cap0 = asteroidsCapacity,
                                   !.astBase = IF r.trap THEN wlog.astBase ELSE r.ptr,
                                   !.prevAstBase = wlog.astBase ]
        /\ UNCHANGED <<sporeCloudsPtr, sporeCloudsCapacity>>
        /\ UNCHANGED <<pvars, dvars, gvars>>

AllocSporeClouds ==
    \E count \in SporeCounts :
      \E r \in AllocOutcomes(count, SporeWords(count), sporeCloudsPtr,
                             sporeCloudsCapacity, heap, memory) :
        /\ sporeCloudsPtr' = r.ptr
        /\ sporeCloudsCapacity' = r.capacity
        /\ heap' = r.heap
        /\ memory' = r.memory
        /\ wlog' = [ NoCall EXCEPT !.fn = "allocSporeClouds", !.count = count,
                                   !.trap = r.trap, !.value = r.ptr,
                                   !.heapCalls = r.heapCalls,
                                   !.ptr0 = sporeCloudsPtr, !.cap0 = sporeCloudsCapacity,
                                   !.astBase = wlog.astBase,
                                   !.prevAstBase = wlog.prevAstBase ]
        /\ UNCHANGED <<asteroidsPtr, asteroidsCapacity>>
        /\ UNCHANGED <<pvars, dvars, gvars>>

\* load<f32>(ptr) is in bounds
InMemory(ptr) == ptr \div 4 < MemWords

\* load<f32>(ptr)
Load(mem, ptr) == mem[ptr \div 4]

Hit2Inclusive(px, py, pr, objX, objY, objR) ==
    LET dx == px - objX
        dy == py - objY
        distSq == dx * dx + dy * dy
        radii == pr + objR
    IN  distSq <= radii * radii

\* if (distSq < radii * radii) of checkCollision
Hit2(px, py, pr, objX, objY, objR) ==
    LET dx == px - objX
        dy == py - objY
        distSq == dx * dx + dy * dy
        radii == pr + objR
    IN  distSq < radii * radii

\* if (distSq < radii * radii) of checkSporeCollision
Hit3(px, py, pz, pr, objX, objY, objZ, objR) ==
    LET dx == px - objX
        dy == py - objY
        dz == pz - objZ
        distSq == dx * dx + dy * dy + dz * dz
        radii == pr + objR
    IN  distSq < radii * radii

\* the byte step from one asteroid record to the next: ptr += 12
AsteroidStep(ptr) == ptr + 12

\* the byte step from one spore cloud record to the next: ptr += 16
SporeStep(ptr) == ptr + 16

\* the scan of checkCollision from record i at address ptr;
\* [trap, value, loads], loads counting the load<f32> executed
RECURSIVE ScanAsteroids(_, _, _, _, _, _)
ScanAsteroids(mem, ptr, i, objectCount, q, loads) ==
    IF i < objectCount
    THEN IF ~InMemory(ptr + 8)
         THEN [trap |-> TRUE, value |-> 0, loads |-> loads]
         ELSE IF Hit2(q[1], q[2], q[3], Load(mem, ptr), Load(mem, ptr + 4), Load(mem, ptr + 8))
              THEN [trap |-> FALSE, value |-> i, loads |-> loads + 3]
              ELSE ScanAsteroids(mem, AsteroidStep(ptr), i + 1, objectCount, q, loads + 3)
    ELSE [trap |-> FALSE, value |-> -1, loads |-> loads]

\* checkCollision(playerX, playerY, playerRadius, objectCount)
CheckCollisionUnguarded(mem, ptr, q, objectCount) ==
    ScanAsteroids(mem, ptr, 0, objectCount, q, 0)

CheckCollisionResult(mem, ptr, q, objectCount) ==
    IF objectCount = 0 \/ ptr = 0
    THEN [trap |-> FALSE, value |-> -1, loads |-> 0]
    ELSE ScanAsteroids(mem, ptr, 0, objectCount, q, 0)

RECURSIVE ScanSporeClouds(_, _, _, _, _, _)
ScanSporeClouds(mem, ptr, i, objectCount, q, loads) ==
    IF i < objectCount
    THEN IF ~InMemory(ptr + 12)
         THEN [trap |-> TRUE, value |-> 0, loads |-> loads]
         ELSE IF Hit3(q[1], q[2], q[3], q[4], Load(mem, ptr), Load(mem, ptr + 4),
                      Load(mem, ptr + 8), Load(mem, ptr + 12))
              THEN [trap |-> FALSE, value |-> i, loads |-> loads + 4]
              ELSE ScanSporeClouds(mem, SporeStep(ptr), i + 1, objectCount, q, loads + 4)
    ELSE [trap |-> FALSE, value |-> -1, loads |-> loads]

\* checkSporeCollision(playerX, playerY, playerZ, playerRadius, objectCount)
CheckSporeCollisionResult(mem, ptr, q, objectCount) ==
    IF objectCount = 0 \/ ptr = 0
    THEN [trap |-> FALSE, value |-> -1, loads |-> 0]
    ELSE ScanSporeClouds(mem, ptr, 0, objectCount, q, 0)

\* the linear memory after a call of checkCollision or checkSporeCollision
\* that scanned from ptr with the result r: neither function has a store
MemoryAfterCheckClearingHit(mem, ptr, r) ==
    IF r.value >= 0 THEN [ mem EXCEPT ![ptr \div 4] = 9 ] ELSE mem

MemoryAfterCheck(mem, ptr, r) == mem

CheckCollision ==
    \E q \in AsteroidQueries, objectCount \in AsteroidCounts :
      LET r == CheckCollisionResult(memory, asteroidsPtr, q, objectCount)
      IN  /\ wlog' = [ NoCall EXCEPT !.fn = "checkCollision", !.count = objectCount,
                                     !.q = <<q[1], q[2], 0, q[3]>>,
                                     !.trap = r.trap, !.value = r.value, !.loads = r.loads,
                                     !.ptr0 = asteroidsPtr, !.cap0 = asteroidsCapacity,
                                     !.astBase = wlog.astBase,
                                     !.prevAstBase = wlog.prevAstBase ]
          /\ memory' = MemoryAfterCheck(memory, asteroidsPtr, r)
          /\ UNCHANGED <<asteroidsPtr, asteroidsCapacity, sporeCloudsPtr,
                         sporeCloudsCapacity, heap>>
          /\ UNCHANGED <<pvars, dvars, gvars>>

CheckSporeCollision ==
    \E q \in SporeQueries, objectCount \in SporeCounts :
      LET r == CheckSporeCollisionResult(memory, sporeCloudsPtr, q, objectCount)
      IN  /\ wlog' = [ NoCall EXCEPT !.fn = "checkSporeCollision", !.count = objectCount,
                                     !.q = q,
                                     !.trap = r.trap, !.value = r.value, !.loads = r.loads,
                                     !.ptr0 = sporeCloudsPtr, !.cap0 = sporeCloudsCapacity,
                                     !.astBase = wlog.astBase,
                                     !.prevAstBase = wlog.prevAstBase ]
          /\ memory' = MemoryAfterCheck(memory, sporeCloudsPtr, r)
          /\ UNCHANGED <<asteroidsPtr, asteroidsCapacity, sporeCloudsPtr,
                         sporeCloudsCapacity, heap>>
          /\ UNCHANGED <<pvars, dvars, gvars>>

\* wasmMemory[offset + k] = v: a Float32Array store, ignored out of range
Store(mem, word, v) ==
    IF word < MemWords THEN [ mem EXCEPT ![word] = v ] ELSE mem

\* the host writes record i of the asteroid buffer through the base address
\* allocAsteroids returned
WriteAsteroid ==
    \E i \in WriteIndices, rec \in AsteroidRecords :
      LET offset == asteroidsPtr \div 4 + i * 3
      IN  /\ asteroidsPtr # 0
          /\ i < asteroidsCapacity
          /\ memory' = Store(Store(Store(memory, offset, rec[1]), offset + 1, rec[2]),
                             offset + 2, rec[3])
          /\ wlog' = [ NoCall EXCEPT !.fn = "writeAsteroid",
                                     !.astBase = wlog.astBase,
                                     !.prevAstBase = wlog.prevAstBase ]
          /\ UNCHANGED <<asteroidsPtr, asteroidsCapacity, sporeCloudsPtr,
                         sporeCloudsCapacity, heap>>
          /\ UNCHANGED <<pvars, dvars, gvars>>

\* the host writes record i of the spore cloud buffer
WriteSporeCloud ==
    \E i \in WriteIndices, rec \in SporeRecords :
      LET offset == sporeCloudsPtr \div 4 + i * 4
      IN  /\ sporeCloudsPtr # 0
          /\ i < sporeCloudsCapacity
          /\ memory' = Store(Store(Store(Store(memory, offset, rec[1]), offset + 1, rec[2]),
                                   offset + 2, rec[3]), offset + 3, rec[4])
          /\ wlog' = [ NoCall EXCEPT !.fn = "writeSporeCloud",
                                     !.astBase = wlog.astBase,
                                     !.prevAstBase = wlog.prevAstBase ]
          /\ UNCHANGED <<asteroidsPtr, asteroidsCapacity, sporeCloudsPtr,
                         sporeCloudsCapacity, heap>>
          /\ UNCHANGED <<pvars, dvars, gvars>>

----------------------------------------------------------------------------
(* main.ts: the animation frame that drives both components.               *)
(* Obstacle and player coordinates are in half world units (the player's   *)
(* radius 0.5 is 1); positions handed to emit are in world units.  The     *)
(* player's motion and the spawn timer are inputs of a frame.  The view    *)
(* wasmMemory is "null", "current" (its buffer is the memory's buffer) or  *)
(* "stale" (the memory was grown since, which detached the view's buffer). *)

\* the most asteroids the list holds
MaxObstacles == 2

\* player.position.x += ... * delta of updatePlayer: the distance the player
\* advances in a frame of the model, and the farthest position modelled
\* (positions 0.5, 60.5 and 120.5 world units, at height 0.5)
Advances == { 0, 120 }
MaxPlayerX == 241

\* spawnX = playerX + 40 + Math.random() * 20 with Math.random() = 0 or
\* 0.975: 40 or 59.5 world units ahead of the player
SpawnAheads == { 80, 119 }

\* if (obs.position.x < playerX - 30)
CLEANUP_BEHIND == 60

\* the playerRadius 0.5 handed to checkCollision
PLAYER_RADIUS == 1

\* size = 0.5 + Math.random() * 1.5 of createAsteroid, with Math.random() = 1/3
AsteroidSizes == { 2 }

\* the frame times handed to the calls of a frame: a frame of the model
\* stands for the frames of one tick of the particle clock
FrameDeltas == Deltas \ {0}

\* the Math.random() results of the emits of a frame: no jitter, no
\* velocity, life 0.75 s
FrameDraws ==
    { [jx |-> 1, jy |-> 1, jz |-> 1, vx |-> 1, vy |-> 1, vz |-> 1, s |-> 0, l |-> 1, z |-> 1] }

NoPlayer == [ loaded |-> FALSE, x |-> 1, y |-> 1 ]

\* the most asteroid hits followed
MaxHits == 4

\* const playerState = { ..., health: 3, maxHealth: 3, invincible: false, ... };
\* distanceToMoon: 500, hasWon: false; distances are in half world units
\* like the player's position; gameOvers counts the calls of gameOver()
InitialPlayerState ==
    [ health |-> 3, maxHealth |-> 3, invincible |-> FALSE, gameOvers |-> 0,
      distanceToMoon |-> 2 * 500, hasWon |-> FALSE ]

\* config[level].distance of the LevelManager, in world units
LevelDistance == << 500, 1200, 2200, 3200, 4200 >>

\* new LevelManager(): currentLevel = 1
NewLevelManager == [ currentLevel |-> 1 ]

\* the farthest position followed in the levels, and the distance the player
\* advances in a frame there (autoScrollSpeed * delta with delta <= 0.1 is
\* at most 1.2 world units)
MaxCruiseX == 8400
CruiseAdvances == { 1, 2 }

\* history of the last animation frame
NoFrame ==
    [ emits |-> 0, lateEmits |-> 0, updated |-> FALSE, thrown |-> FALSE,
      alloc |-> FALSE, allocCount |-> 0, base |-> 0, ptr0 |-> 0,
      writeBase |-> 0, viewAtWrite |-> "null", refreshed |-> FALSE, written |-> {},
      checked |-> FALSE, checkCount |-> 0, loads |-> 0, hitIndex |-> -1,
      countAtUpdate |-> 0, displayThrown |-> FALSE, won |-> FALSE ]

\* the state a frame works on
FrameState ==
    [ ps |-> ps, color |-> color, plog |-> plog, obstacles |-> obstacles,
      player |-> player, ptr |-> asteroidsPtr, capacity |-> asteroidsCapacity,
      heap |-> heap, memory |-> memory, view |-> wasmMemory,
      exports |-> wasmExports, pstate |-> playerState, level |-> levelManager,
      log |-> NoFrame ]

\* particleSystem.emit(pos, color, count, speed, size, spread) called in a frame
EmitCall(st, pos, hex, n, speed, size, spread, d) ==
    [ st EXCEPT
        !.ps = EmitLoop(st.ps, hex, 0, n, pos, speed, size, spread,
                        [k \in 1 .. st.ps.maxParticles |-> d]),
        !.color = hex,
        !.plog = [ NoLog EXCEPT !.op = "emit", !.n = n, !.count0 = st.ps.count,
                                !.age = st.plog.age ],
        !.log = [ @ EXCEPT !.emits = @ + 1,
                           !.lateEmits = IF st.log.updated THEN @ + 1 ELSE @ ] ]

\* particleSystem.update(delta) called in a frame
UpdateCall(st, delta) ==
    LET s0 == [ p |-> st.ps, c |-> st.color, i |-> 0,
                g |-> [ NoLog EXCEPT !.op = "update", !.delta = delta,
                                     !.count0 = st.ps.count, !.age = st.plog.age ] ]
        s1 == UpdateLoop(s0, delta)
    IN  [ st EXCEPT !.ps = PublishCount(s1.p), !.color = s1.c, !.plog = s1.g,
                    !.log = [ @ EXCEPT !.updated = TRUE,
                                       !.countAtUpdate = st.ps.count ] ]

\* LevelManager.startLevel(levelIndex)
StartLevel(st, levelIndex) ==
    LET s1 == [ st EXCEPT !.level.currentLevel = levelIndex ]
    IN  IF levelIndex \notin DOMAIN LevelDistance
        THEN s1
        ELSE [ s1 EXCEPT !.pstate.distanceToMoon = 2 * LevelDistance[levelIndex] ]

\* LevelManager.checkProgress(playerX), playerX in half world units
CheckProgress(st, playerX) ==
    IF st.level.currentLevel = 1 /\ playerX > 2 * 500 THEN StartLevel(st, 2)
    ELSE IF st.level.currentLevel = 2 /\ playerX > 2 * 1200 THEN StartLevel(st, 3)
    ELSE IF st.level.currentLevel = 3 /\ playerX > 2 * 2200 THEN StartLevel(st, 4)
    ELSE IF st.level.currentLevel = 4 /\ playerX > 2 * 3200 THEN StartLevel(st, 5)
    ELSE st

\* updatePlayer: the player moves; when thrusting, the engine trail is
\* emitted half a unit behind and below the player (the spread 0.2 is below
\* the resolution of the argument and multiplies a jitter of zero); then
\* levelManager.checkProgress(player.position.x)
UpdatePlayer(st, in) ==
    IF ~st.player.loaded
    THEN st
    ELSE LET moved == [ st EXCEPT !.player.x = @ + in.advance ]
             exhaustPos == << (moved.player.x - 1) \div 2, (moved.player.y - 1) \div 2, 0 >>
             flown == IF in.thrust
                      THEN EmitCall(moved, exhaustPos, <<255, 170, 0>>, 2, 5, 4, 0, in.draw)
                      ELSE moved
         IN  CheckProgress(flown, flown.player.x)

\* if (player && player.position.x >= playerState.distanceToMoon - 10
\*     && !playerState.hasWon) { playerState.hasWon = true; gameWin(); }
CheckWin(st) ==
    IF /\ st.player.loaded
       /\ st.player.x >= st.pstate.distanceToMoon - 2 * 10
       /\ ~st.pstate.hasWon
    THEN [ st EXCEPT !.pstate.hasWon = TRUE, !.log.won = TRUE ]
    ELSE st

\* createAsteroid(spawnX, spawnY)
CreateAsteroid(obs, x, y, size) ==
    Append(obs, [ x |-> x, y |-> y, radius |-> size ])

\* the cleanup loop of updateObstacles: asteroids behind the player are removed
RECURSIVE Cleanup(_, _)
Cleanup(obs, playerX) ==
    IF obs = << >>
    THEN << >>
    ELSE IF Head(obs).x < playerX - CLEANUP_BEHIND
         THEN Cleanup(Tail(obs), playerX)
         ELSE << Head(obs) >> \o Cleanup(Tail(obs), playerX)

\* updateHealthDisplay: String.prototype.repeat throws a RangeError for a
\* negative count
HealthDisplayThrows(pstate) ==
    pstate.health < 0 \/ pstate.maxHealth - pstate.health < 0

\* playerState.health--; playerState.invincible = true;
TakeHit(pstate) ==
    [ pstate EXCEPT !.health = @ - 1, !.invincible = TRUE ]

\* if (playerState.health <= 0) gameOver();
IsGameOver(pstate) == pstate.health <= 0

\* handleCollision(hitIndex): the two explosion emits at the asteroid (an
\* asteroid the player can reach lies at a whole world unit), the loss of
\* one health, the invincibility flag and its timeout, the health display,
\* and gameOver() at health <= 0
HandleCollision(st, hitIndex, d) ==
    IF hitIndex + 1 \in DOMAIN st.obstacles
    THEN LET obs == st.obstacles[hitIndex + 1]
             pos == << obs.x \div 2, obs.y \div 2, 0 >>
             s1  == EmitCall(EmitCall(st, pos, <<255, 85, 85>>, 15, 10, 6, 1, d),
                             pos, <<170, 170, 170>>, 10, 8, 4, 1, d)
             s2  == [ s1 EXCEPT !.pstate = TakeHit(@) ]
         IN  IF HealthDisplayThrows(s2.pstate)
             THEN [ s2 EXCEPT !.log.displayThrown = TRUE ]
             ELSE IF IsGameOver(s2.pstate)
                  THEN [ s2 EXCEPT !.pstate.gameOvers = @ + 1 ]
                  ELSE s2
    ELSE st

\* if (!wasmMemory || wasmMemory.buffer !== wasmExports.memory.buffer)
NeedsViewRefreshOnlyNull(view) == view = "null"

NeedsViewRefresh(view) == view = "null" \/ view = "stale"

\* const startIdx = ptr >>> 2
StartIdx(ptr) == ptr \div 4

\* const offset = startIdx + (i * 3)
RecordOffsetStride4(startIdx, i) == startIdx + (i * 4)

RecordOffset(startIdx, i) == startIdx + (i * 3)

\* obs.userData.radius || 1.0
RadiusOrDefault(radius) == IF radius = 0 THEN 2 ELSE radius

\* a store through the view: lost when the view's buffer is detached
StoreThrough(view, mem, word, v) ==
    IF view = "current" THEN Store(mem, word, v) ELSE mem

\* the write loop of updateObstacles from index i on: the memory after it
\* and the indices whose stores reached the memory
RECURSIVE WriteRecords(_, _, _, _, _, _)
WriteRecords(mem, view, startIdx, obs, i, written) ==
    IF i < Len(obs)
    THEN LET o == obs[i + 1]
             offset == RecordOffset(startIdx, i)
             m1 == StoreThrough(view, mem, offset, o.x)
             m2 == StoreThrough(view, m1, offset + 1, o.y)
             m3 == StoreThrough(view, m2, offset + 2, RadiusOrDefault(o.radius))
         IN  WriteRecords(m3, view, startIdx, obs, i + 1,
                          IF view = "current" THEN written \cup {i} ELSE written)
    ELSE [ memory |-> mem, written |-> written ]

\* the views the host may hold after allocAsteroids returned: a heap call
\* may have grown the memory, which detaches the buffer of the view
ViewsAfterAlloc(view, heapCalls) ==
    IF heapCalls > 0 /\ view = "current" THEN { "current", "stale" } ELSE { view }

\* updateObstacles after allocAsteroids returned ptr: view refresh, write
\* loop, checkCollision, handleCollision
WriteAndCheck(st, in) ==
    LET n == Len(st.obstacles)
        view == IF NeedsViewRefresh(st.view) THEN "current" ELSE st.view
        startIdx == StartIdx(st.ptr)
        w == WriteRecords(st.memory, view, startIdx, st.obstacles, 0, {})
        res == CheckCollisionResult(w.memory, st.ptr,
                                    << st.player.x, st.player.y, PLAYER_RADIUS >>, n)
        s2 == [ st EXCEPT
                  !.view = view,
                  !.memory = w.memory,
                  !.log = [ @ EXCEPT !.writeBase = 4 * startIdx,
                                     !.viewAtWrite = view,
                                     !.refreshed = NeedsViewRefresh(st.view),
                                     !.written = w.written,
                                     !.checked = TRUE,
                                     !.checkCount = n,
                                     !.loads = res.loads,
                                     !.hitIndex = IF res.trap THEN -1 ELSE res.value,
                                     !.thrown = res.trap ] ]
    IN  IF ~res.trap /\ res.value # -1
        THEN HandleCollision(s2, res.value, in.draw)
        ELSE s2

\* updateObstacles(delta): spawn, cleanup, then the collision query through
\* the module; the set of states it may end in
UpdateObstacles(st, in) ==
    IF ~st.player.loaded
    THEN { st }
    ELSE LET playerX == st.player.x
             spawned == IF in.spawn /\ Len(st.obstacles) < MaxObstacles
                        THEN CreateAsteroid(st.obstacles, playerX + in.ahead, 0, in.size)
                        ELSE st.obstacles
             kept == Cleanup(spawned, playerX)
             n  == Len(kept)
             s1 == [ st EXCEPT !.obstacles = kept ]
         IN  IF st.exports /\ n > 0
             THEN UNION {
                    IF r.trap
                    THEN { [ s1 EXCEPT !.log = [ @ EXCEPT !.alloc = TRUE, !.allocCount = n,
                                                         !.ptr0 = st.ptr,
                                                         !.thrown = TRUE ] ] }
                    ELSE { WriteAndCheck(
                             [ s1 EXCEPT !.ptr = r.ptr, !.capacity = r.capacity,
                                         !.heap = r.heap, !.memory = r.memory,
                                         !.view = v,
                                         !.log = [ @ EXCEPT !.alloc = TRUE,
                                                            !.allocCount = n,
                                                            !.ptr0 = st.ptr,
                                                            !.base = r.ptr ] ], in)
                           : v \in ViewsAfterAlloc(s1.view, r.heapCalls) }
                    : r \in AllocOutcomes(n, AsteroidWords(n), st.ptr, st.capacity,
                                          st.heap, st.memory) }
             ELSE { s1 }

\* animate: updatePlayer(delta); updateObstacles(delta);
\* particleSystem.update(delta); a trap in the module ends the frame
AnimateUpdateFirst(st, in) ==
    UpdateObstacles(UpdatePlayer(UpdateCall(st, in.delta), in), in)

AnimateFrame(st, in) ==
    { IF s2.log.thrown \/ s2.log.displayThrown
      THEN s2
      ELSE CheckWin(UpdateCall(s2, in.delta))
      : s2 \in UpdateObstacles(UpdatePlayer(st, in), in) }

\* the inputs of a frame; the spawn offset is drawn only in a frame that
\* spawns
FrameInputs ==
    { [ delta |-> delta, thrust |-> thrust, spawn |-> spawn, advance |-> advance,
        ahead |-> ahead, size |-> size, draw |-> draw ] :
      delta \in FrameDeltas, thrust \in BOOLEAN, spawn \in BOOLEAN,
      advance \in Advances, ahead \in SpawnAheads, size \in AsteroidSizes,
      draw \in FrameDraws }

\* the inputs of a frame in which the player only flies on: no key is
\* pressed and the spawn timer has not run out
CruiseInputs ==
    { [ delta |-> delta, thrust |-> FALSE, spawn |-> FALSE, advance |-> advance,
        ahead |-> ahead, size |-> size, draw |-> draw ] :
      delta \in FrameDeltas, advance \in CruiseAdvances,
      ahead \in { a \in SpawnAheads : \A b \in SpawnAheads : a <= b },
      size \in AsteroidSizes, draw \in FrameDraws }

\* a frame with the inputs in
AnimateWith(in) ==
          \E s \in AnimateFrame(FrameState, in) :
            /\ s.pstate.maxHealth - s.pstate.health <= MaxHits
            /\ levelManager' = s.level
            /\ playerState' = s.pstate
            /\ ps' = s.ps
            /\ color' = s.color
            /\ plog' = s.plog
            /\ obstacles' = s.obstacles
            /\ player' = s.player
            /\ asteroidsPtr' = s.ptr
            /\ asteroidsCapacity' = s.capacity
            /\ heap' = s.heap
            /\ memory' = s.memory
            /\ wasmMemory' = s.view
            /\ dlog' = s.log
            /\ UNCHANGED <<sporeCloudsPtr, sporeCloudsCapacity, wlog, wasmExports, gvars>>

\* animate in the asteroid field
Animate ==
    \E in \in { i \in FrameInputs :
                  /\ player.x + i.advance <= MaxPlayerX
                  /\ ~i.spawn => \A a \in SpawnAheads : i.ahead <= a } :
      AnimateWith(in)

\* animate on the way through the levels
Cruise ==
    \E in \in { i \in CruiseInputs : player.x + i.advance <= MaxCruiseX } :
      AnimateWith(in)

\* loadWasm resolved: the exports and a view of the memory are set
LoadWasm ==
    /\ ~wasmExports
    /\ wasmExports' = TRUE
    /\ wasmMemory' = "current"
    /\ dlog' = NoFrame
    /\ UNCHANGED <<pvars, wvars, gvars, obstacles, player, playerState, levelManager>>

\* the GLB loader's callback: the player object is set; the model puts it
\* at (0.5, 0.5), a place updatePlayer's motion takes it to
LoadPlayer ==
    /\ ~player.loaded
    /\ player' = [ loaded |-> TRUE, x |-> 1, y |-> 1 ]
    /\ dlog' = NoFrame
    /\ UNCHANGED <<pvars, wvars, gvars, obstacles, wasmExports, wasmMemory,
                   playerState, levelManager>>

\* the callback of setTimeout(() => { playerState.invincible = false; }, 2000)
\* runs, between two frames.  Every hit sets invincible and starts a timeout,
\* so while invincible is true the timeout of the last hit is pending; the
\* callback of an earlier hit that runs when invincible is false changes
\* nothing.  The frames of the model carry no wall-clock time: the callback
\* may run after any frame.
InvincibilityTimeout ==
    /\ playerState.invincible
    /\ playerState' = [ playerState EXCEPT !.invincible = FALSE ]
    /\ UNCHANGED <<pvars, wvars, gvars, obstacles, player, wasmExports, wasmMemory,
                   levelManager, dlog>>

----------------------------------------------------------------------------
(* geological.ts: the eruption cycle of a Magma Heart.  Time is in ticks   *)
(* of 1/4 s like the particle clock, pressure in units of 1/4 %, so that   *)
(* pressure + delta * 5 is pressure + 5 * ticks and                        *)
(* 80 + (phaseTimer / 5) * 20 is 320 + 4 * ticks.  The emissive intensity, *)
(* the opacity and the rotation are not part of the cycle and left out.    *)

\* the most lava droplets followed on a heart
MaxDroplets == 2

\* the frame times handed to updateMagmaHeart: 0, 0.25 s, 1 s and 7.5 s
HeartDeltas == { 0, 1, 4, 30 }

\* group.userData of createMagmaHeart: pressure 0, phase 'build',
\* phaseTimer 0, no droplets
NewMagmaHeart ==
    [ pressure |-> 0, phase |-> "build", phaseTimer |-> 0, droplets |-> 0 ]

\* history of the last updateMagmaHeart call
NoHeartCall == [ called |-> FALSE, delta |-> 0, phase0 |-> "build", pressure0 |-> 0 ]

\* Math.min(80, data.pressure + delta * 5)
BuildPressure(pressure, delta) ==
    IF pressure + delta * 5 < 4 * 80 THEN pressure + delta * 5 ELSE 4 * 80

\* Math.min(100, 80 + (data.phaseTimer / 5) * 20)
CriticalPressure(phaseTimer) ==
    IF 4 * 80 + 4 * phaseTimer < 4 * 100 THEN 4 * 80 + 4 * phaseTimer ELSE 4 * 100

PressureAfterEruptionKept(pressure) == pressure

\* data.pressure = 0 at the end of the eruption
PressureAfterEruption(pressure) == 0

\* updateMagmaHeart(heart, delta, time) on the data of a heart; droplet
\* tells whether Math.random() < 0.1 in the critical phase
MagmaHeartStep(data, delta, droplet) ==
    LET d1 == [ data EXCEPT !.phaseTimer = @ + delta ]
    IN  IF d1.phase = "build"
        THEN LET d2 == [ d1 EXCEPT !.pressure = BuildPressure(@, delta) ]
             IN  IF d2.pressure >= 4 * 80
                 THEN [ d2 EXCEPT !.phase = "critical", !.phaseTimer = 0 ]
                 ELSE d2
        ELSE IF d1.phase = "critical"
        THEN LET d2 == [ d1 EXCEPT !.pressure = CriticalPressure(d1.phaseTimer) ]
                 d3 == IF droplet THEN [ d2 EXCEPT !.droplets = @ + 1 ] ELSE d2
             IN  IF d3.phaseTimer >= 4 * 5
                 THEN [ d3 EXCEPT !.phase = "eruption", !.phaseTimer = 0 ]
                 ELSE d3
        ELSE IF d1.phase = "eruption"
        THEN IF d1.phaseTimer >= 4 * 2
             THEN [ d1 EXCEPT !.phase = "cooldown", !.phaseTimer = 0,
                              !.pressure = PressureAfterEruption(@),
                              !.droplets = 0 ]
             ELSE d1
        ELSE IF d1.phase = "cooldown"
        THEN IF d1.phaseTimer >= 4 * 15
             THEN [ d1 EXCEPT !.phase = "build", !.phaseTimer = 0 ]
             ELSE d1
        ELSE d1

UpdateMagmaHeart ==
    \E delta \in HeartDeltas, droplet \in BOOLEAN :
      /\ droplet => (heart.phase = "critical" /\ heart.droplets < MaxDroplets)
      /\ heart' = MagmaHeartStep(heart, delta, droplet)
      /\ hlog' = [ called |-> TRUE, delta |-> delta, phase0 |-> heart.phase,
                   pressure0 |-> heart.pressure ]
      /\ UNCHANGED <<pvars, wvars, dvars, legacy, llog>>

----------------------------------------------------------------------------
(* particles.js: the array-based ParticleSystem that particles.ts         *)
(* replaced.  Units as in the particle model above.  mesh.setMatrixAt and  *)
(* mesh.setColorAt store into the instance buffers, which keep what was    *)
(* last written to a slot.  The buffers are kept sparsely: a slot that no   *)
(* call has stored into yet holds the zeroes of the constructor.           *)

\* the maxParticles handed to the constructor
LegacyMaxParticles == 2

\* the colours handed to emit: 0xff5555 and 0xaaaaaa
LegacyColors == { <<255, 85, 85>>, <<170, 170, 170>> }

\* the counts handed to emit
LegacyCounts == { 1, 2 }

\* the Math.random() results of an emit call that matter below: l for
\* life = 0.5 + Math.random() * 0.5, that is 2 + l ticks; the jitter draws
\* are 1/2 (no jitter), the direction is up, the speed and size draws give
\* half a world unit per second and the size 1.0
LegacyDraws == { [l |-> 0], [l |-> 1] }

\* constructor(scene, maxParticles): empty arrays; the InstancedMesh starts
\* with count = maxParticles and zeroed buffers
NewLegacySystem ==
    [ maxParticles |-> LegacyMaxParticles,
      particles |-> << >>,
      meshCount |-> LegacyMaxParticles,
      instanceMatrix |-> << >>,
      instanceColor |-> << >> ]

\* the content of slot i of an instance buffer
SlotOf(buffer, i, zero) ==
    IF i \in DOMAIN buffer THEN buffer[i] ELSE zero

\* mesh.setMatrixAt(i, value), mesh.setColorAt(i, value)
SetSlot(buffer, i, value) ==
    [ j \in DOMAIN buffer \cup {i} |-> IF j = i THEN value ELSE buffer[j] ]

\* history of the last call: the slots update stored into
NoLegacyCall ==
    [ op |-> "new", delta |-> 0, removed |-> 0, active |-> 0, written |-> {} ]

\* the six pushes of emit for one particle: position, velocity, colour,
\* life, maxLife, size
LegacyParticle(colorHex, d) ==
    [ pos |-> <<0, 0, 0>>, vel |-> <<0, 1, 0>>, color |-> colorHex,
      life |-> 2 + d.l, maxLife |-> 2 + d.l, size |-> 5 ]

\* emit(pos, colorHex, count, ...): a full system shifts the oldest out
RECURSIVE LegacyEmitLoop(_, _, _, _, _)
LegacyEmitLoop(particles, maxParticles, colorHex, d, n) ==
    IF n = 0
    THEN particles
    ELSE LET room == IF Len(particles) >= maxParticles THEN Tail(particles)
                     ELSE particles
         IN  LegacyEmitLoop(Append(room, LegacyParticle(colorHex, d)),
                            maxParticles, colorHex, d, n - 1)

LegacyEmit ==
    \E colorHex \in LegacyColors, count \in LegacyCounts, d \in LegacyDraws :
      /\ legacy' = [ legacy EXCEPT
                       !.particles = LegacyEmitLoop(@, legacy.maxParticles,
                                                    colorHex, d, count) ]
      /\ llog' = [ NoLegacyCall EXCEPT !.op = "emit" ]
      /\ UNCHANGED <<pvars, wvars, dvars, heart, hlog>>

\* this.<array>.splice(i, 1) on the six arrays
SpliceOut(particles, i) ==
    SubSeq(particles, 1, i) \o SubSeq(particles, i + 2, Len(particles))

\* _dummy.position.copy, _dummy.scale.setScalar, _dummy.updateMatrix
LegacyMatrix(p) ==
    [ x |-> p.pos[1], y |-> p.pos[2], z |-> p.pos[3],
      scaleNum |-> p.size * p.life, scaleDen |-> p.maxLife ]

\* the backward loop of update from index i down to 0
RECURSIVE LegacyUpdateLoop(_, _, _)
LegacyUpdateLoop(st, i, delta) ==
    IF i < 0
    THEN st
    ELSE LET p  == st.l.particles[i + 1]
             p1 == [ p EXCEPT !.life = @ - delta ]
         IN  IF p1.life <= 0
             THEN LegacyUpdateLoop(
                    [ st EXCEPT !.l.particles = SpliceOut(@, i),
                                !.g.removed = @ + 1 ], i - 1, delta)
             ELSE LET p2 == [ p1 EXCEPT
                                !.pos = << p1.pos[1] + p1.vel[1] * delta,
                                           p1.pos[2] + p1.vel[2] * delta,
                                           p1.pos[3] + p1.vel[3] * delta >> ]
                      p3 == [ p2 EXCEPT
                                !.vel[2] = @ - (GRAVITY * delta) \div 2 ]
                      m  == LegacyMatrix(p3)
                  IN  LegacyUpdateLoop(
                        [ st EXCEPT
                            !.l.particles[i + 1] = p3,
                            !.l.instanceMatrix = SetSlot(@, i, m),
                            !.l.instanceColor = SetSlot(@, i, p3.color),
                            !.g.written = @ \cup {i},
                            !.g.active = @ + 1 ], i - 1, delta)

\* update(delta): the loop, then this.mesh.count = activeCount
LegacyUpdate ==
    \E delta \in Deltas :
      LET s0 == [ l |-> legacy,
                  g |-> [ NoLegacyCall EXCEPT !.op = "update", !.delta = delta ] ]
          s1 == LegacyUpdateLoop(s0, Len(legacy.particles) - 1, delta)
      IN  /\ legacy' = [ s1.l EXCEPT !.meshCount = s1.g.active ]
          /\ llog' = s1.g
          /\ UNCHANGED <<pvars, wvars, dvars, heart, hlog>>

----------------------------------------------------------------------------
(* Specifications *)

Init ==
    /\ ps = NewParticleSystem
    /\ color = <<255, 255, 255>>
    /\ plog = NoLog
    /\ asteroidsPtr = 0
    /\ asteroidsCapacity = 0
    /\ sporeCloudsPtr = 0
    /\ sporeCloudsCapacity = 0
    /\ memory = [w \in 0 .. (MemWords - 1) |-> 0]
    /\ heap = {}
    /\ wlog = NoCall
    /\ obstacles = << >>
    /\ player = NoPlayer
    /\ wasmExports = FALSE
    /\ wasmMemory = "null"
    /\ playerState = InitialPlayerState
    /\ levelManager = NewLevelManager
    /\ dlog = NoFrame
    /\ heart = NewMagmaHeart
    /\ hlog = NoHeartCall
    /\ legacy = NewLegacySystem
    /\ llog = NoLegacyCall

\* the particle pool driven by arbitrary emit and update calls
Next == Emit \/ Update

Spec == Init /\ [][Next]_vars

\* an update call that lets time pass
AgeingUpdate == Update /\ plog'.delta > 0

\* the particle pool in a running game: animate calls update in every frame
ExpirySpec == Init /\ [][Next]_vars /\ WF_vars(AgeingUpdate)

\* the collision module driven by arbitrary calls and host writes
WasmNext ==
    \/ AllocAsteroids
    \/ AllocSporeClouds
    \/ CheckCollision
    \/ CheckSporeCollision
    \/ WriteAsteroid
    \/ WriteSporeCloud

WasmSpec == Init /\ [][WasmNext]_vars

\* the game loop: the two loaders, the animation frames and the timeouts
\* of the hits
DriverNext == LoadWasm \/ LoadPlayer \/ Animate \/ InvincibilityTimeout

DriverSpec == Init /\ [][DriverNext]_vars

\* the flight through the levels: the player is loaded and flies on
LevelNext == LoadPlayer \/ Cruise

LevelSpec == Init /\ [][LevelNext]_vars

\* a Magma Heart driven by arbitrary updateMagmaHeart calls
MagmaNext == UpdateMagmaHeart

MagmaSpec == Init /\ [][MagmaNext]_vars

\* the array-based ParticleSystem driven by arbitrary emit and update calls
LegacyNext == LegacyEmit \/ LegacyUpdate

LegacySpec == Init /\ [][LegacyNext]_vars

----------------------------------------------------------------------------
(* Properties of the particle pool, checked under Spec *)

LiveIdx == 0 .. (ps.count - 1)

\* C1: after any sequence of emit and update calls the active count is
\* between 0 and maxParticles.
C1_CountWithinCapacity == 0 <= ps.count /\ ps.count <= ps.maxParticles

\* an emit that asked for more than the free capacity has filled the pool
C1_Witness ==
    /\ plog.op = "emit"
    /\ plog.n > ps.maxParticles - plog.count0
    /\ ps.count = ps.maxParticles

\* C2: an emit of n particles into a pool holding c of C adds exactly
\* min(n, C - c) particles; a request beyond the free capacity ends at C.
C2_EmitAddsMin ==
    plog.op = "emit" =>
        /\ ps.count = plog.count0 + Min(plog.n, ps.maxParticles - plog.count0)
        /\ (plog.n > ps.maxParticles - plog.count0 => ps.count = ps.maxParticles)

\* the example of the specification: an empty pool asked for more than its
\* capacity, and a partly filled pool asked for more than is free
C2_Witness ==
    /\ plog.op = "emit"
    /\ plog.count0 = 0
    /\ plog.n = ps.maxParticles + 1
    /\ ps.count = ps.maxParticles

\* C3: between calls every index below count holds a particle whose
\* remaining life is positive, also after an update in which several
\* particles, the swapped-in one included, died.
C3_LiveRangeAlive == \A i \in LiveIdx : ps.life[i] > 0

\* an update in which a particle moved in from the last slot died as well,
\* and another particle survived
C3_Witness ==
    /\ plog.op = "update"
    /\ plog.movedDied
    /\ ps.count > 0
    /\ ps.count + 2 <= plog.count0

\* C4: update(dt) reduces the remaining life of every particle that was live
\* at the call exactly once; a survivor's life is its prior life minus dt,
\* also when swap-remove moved it to another slot.
C4_LifeDecrementedOnce ==
    [][ plog'.op = "update" =>
          /\ \A k \in 0 .. (ps.count - 1) : plog'.decs[k] = 1
          /\ \A i \in 0 .. (ps'.count - 1) :
                ps'.life[i] = ps.life[plog'.src[i]] - plog'.delta ]_vars

\* an update with dt > 0 after which a survivor sits in a slot it was moved to
C4_Witness ==
    /\ plog.op = "update"
    /\ plog.delta > 0
    /\ \E i \in LiveIdx : plog.src[i] # i

\* C10: at the end of update the published instance count equals the active
\* count, and every slot below it was written in that call with the
\* transform and colour of the particle the slot holds at the end.
C10_PublishedMatchesLive ==
    plog.op = "update" =>
        /\ ps.meshCount = ps.count
        /\ \A i \in LiveIdx :
              /\ i \in plog.written
              /\ ps.instanceMatrix[i] = ComposeMatrix(ps, i)
              /\ ps.instanceColor[i] = << ps.colorR[i], ps.colorG[i], ps.colorB[i] >>

\* an update with deaths in which a moved particle survived and was published
C10_Witness ==
    /\ plog.op = "update"
    /\ ps.count < plog.count0
    /\ \E i \in LiveIdx : plog.src[i] # i /\ i \in plog.written

\* C11: update(0) removes no particle: the active count after the call is
\* the count before it, however often the call is repeated.
C11_ZeroStepKeepsCount ==
    [][ (plog'.op = "update" /\ plog'.delta = 0) => ps'.count = ps.count ]_vars

\* update(0) on a pool that holds particles, some of them aged before
C11_Witness ==
    /\ plog.op = "update"
    /\ plog.delta = 0
    /\ ps.count > 0
    /\ ps.count = plog.count0
    /\ \E i \in LiveIdx : ps.life[i] < ps.maxLife[i]

\* C17: the remaining life of every live particle is at most its total
\* life, also for a particle that swap-remove moved to another slot.
C17_LifeWithinMaxLife == \A i \in LiveIdx : ps.life[i] <= ps.maxLife[i]

\* an update with dt > 0 after which a moved survivor has aged
C17_Witness ==
    /\ plog.op = "update"
    /\ plog.delta > 0
    /\ \E i \in LiveIdx : plog.src[i] # i /\ ps.life[i] < ps.maxLife[i]

\* C20: after update(dt) the particles below count are exactly the particles
\* that were live before the call with life - dt > 0, each once, and each
\* with its own total life, size, colour, velocity and position history.
C20_SurvivorsPreserved ==
    [][ plog'.op = "update" =>
          LET dt  == plog'.delta
              src == plog'.src
              survivors == { k \in 0 .. (ps.count - 1) : ps.life[k] - dt > 0 }
          IN  /\ ps'.count = Cardinality(survivors)
              /\ { src[i] : i \in 0 .. (ps'.count - 1) } = survivors
              /\ \A i \in 0 .. (ps'.count - 1) :
                    /\ ps'.maxLife[i] = ps.maxLife[src[i]]
                    /\ ps'.size[i] = ps.size[src[i]]
                    /\ ps'.colorR[i] = ps.colorR[src[i]]
                    /\ ps'.colorG[i] = ps.colorG[src[i]]
                    /\ ps'.colorB[i] = ps.colorB[src[i]]
                    /\ ps'.life[i] = ps.life[src[i]] - dt
                    /\ ps'.velocityX[i] = ps.velocityX[src[i]]
                    /\ ps'.velocityY[i] = ps.velocityY[src[i]] - (GRAVITY * dt) \div 2
                    /\ ps'.velocityZ[i] = ps.velocityZ[src[i]]
                    /\ ps'.positionX[i] = ps.positionX[src[i]] + ps.velocityX[src[i]] * dt
                    /\ ps'.positionY[i] = ps.positionY[src[i]] + ps.velocityY[src[i]] * dt
                    /\ ps'.positionZ[i] = ps.positionZ[src[i]] + ps.velocityZ[src[i]] * dt
    ]_vars

\* an update in which a particle died in a slot below two survivors, so that
\* one survivor changed its slot and the other kept it
C20_Witness ==
    /\ plog.op = "update"
    /\ ps.count = 2
    /\ plog.count0 = 3
    /\ plog.delta > 0
    /\ \E i, j \in LiveIdx : plog.src[i] # i /\ plog.src[j] = j

\* C21: an update of a pool with n active particles executes the loop body
\* exactly n times, whatever dies, and never reads at a negative index.
C21_OnePass ==
    plog.op = "update" => (plog.iters = plog.count0 /\ plog.minRead >= 0)

\* an update of a full pool in which a particle moved into a lower slot died
\* there as well
C21_Witness ==
    /\ plog.op = "update"
    /\ plog.count0 = ps.maxParticles
    /\ plog.movedDied
    /\ plog.iters = plog.count0

\* the slots of the pool before an update whose particles are live after it
Kept(src, count) == { src[i] : i \in 0 .. (count - 1) }

\* C22: under updates with a delta > 0 a particle of total life L is removed
\* by the first update after which the time since its emit is >= L, not
\* earlier and not later; once no emit follows, the pool runs empty and stays
\* empty.
C22_ExpiresOnTime ==
    /\ [][ (plog'.op = "update" /\ plog'.delta > 0) =>
              \A k \in 0 .. (ps.count - 1) :
                  (k \in Kept(plog'.src, ps'.count))
                     <=> (plog.age[k] + plog'.delta < ps.maxLife[k]) ]_vars
    /\ (<>[][plog'.op # "emit"]_vars) => <>[](ps.count = 0)

\* an update that removed a particle in its second update and kept a younger
\* one
C22_Witness ==
    /\ plog.op = "update"
    /\ plog.delta > 0
    /\ ps.count > 0
    /\ ps.count < plog.count0
    /\ \E i \in LiveIdx : plog.age[i] = plog.delta

\* C23: an emit leaves every attribute of the particles below the old count
\* as it was, and an emit into a full pool changes nothing of the pool.
C23_EmitOnlyAppends ==
    [][ plog'.op = "emit" =>
          /\ \A i \in 0 .. (ps.count - 1) :
                /\ ps'.positionX[i] = ps.positionX[i]
                /\ ps'.positionY[i] = ps.positionY[i]
                /\ ps'.positionZ[i] = ps.positionZ[i]
                /\ ps'.velocityX[i] = ps.velocityX[i]
                /\ ps'.velocityY[i] = ps.velocityY[i]
                /\ ps'.velocityZ[i] = ps.velocityZ[i]
                /\ ps'.life[i] = ps.life[i]
                /\ ps'.maxLife[i] = ps.maxLife[i]
                /\ ps'.size[i] = ps.size[i]
                /\ ps'.colorR[i] = ps.colorR[i]
                /\ ps'.colorG[i] = ps.colorG[i]
                /\ ps'.colorB[i] = ps.colorB[i]
          /\ ps'.count >= ps.count
          /\ ps'.meshCount = ps.meshCount
          /\ ps'.instanceMatrix = ps.instanceMatrix
          /\ ps'.instanceColor = ps.instanceColor
          /\ (ps.count >= ps.maxParticles => ps' = ps) ]_vars

\* an emit that added particles behind an aged one
C23_Witness ==
    /\ plog.op = "emit"
    /\ plog.count0 > 0
    /\ ps.count > plog.count0
    /\ ps.life[0] < ps.maxLife[0]

----------------------------------------------------------------------------
(* Properties of the collision module, checked under WasmSpec *)

\* record i of the asteroid buffer overlaps the query q = <<x, y, z, radius>>
AsteroidOverlaps(i, q) ==
    LET w == asteroidsPtr \div 4 + 3 * i
    IN  /\ w + 2 < MemWords
        /\ Hit2(q[1], q[2], q[4], memory[w], memory[w + 1], memory[w + 2])

\* record i of the spore cloud buffer overlaps the query q
SporeOverlaps(i, q) ==
    LET w == sporeCloudsPtr \div 4 + 4 * i
    IN  /\ w + 3 < MemWords
        /\ Hit3(q[1], q[2], q[3], q[4], memory[w], memory[w + 1], memory[w + 2],
                memory[w + 3])

\* the logged call returned the lowest overlapping index below its record
\* count, or -1 when there is none
ReturnedFirstAsteroid ==
    /\ ~wlog.trap
    /\ wlog.value >= -1 /\ wlog.value < wlog.count
    /\ wlog.value >= 0 => AsteroidOverlaps(wlog.value, wlog.q)
    /\ \A j \in 0 .. ((IF wlog.value >= 0 THEN wlog.value ELSE wlog.count) - 1) :
          ~AsteroidOverlaps(j, wlog.q)

ReturnedFirstSpore ==
    /\ ~wlog.trap
    /\ wlog.value >= -1 /\ wlog.value < wlog.count
    /\ wlog.value >= 0 => SporeOverlaps(wlog.value, wlog.q)
    /\ \A j \in 0 .. ((IF wlog.value >= 0 THEN wlog.value ELSE wlog.count) - 1) :
          ~SporeOverlaps(j, wlog.q)

\* C5: for any buffer contents and any record count N <= capacity,
\* checkCollision (checkSporeCollision) returns the lowest index in [0, N)
\* whose record overlaps the query, and -1 when none does.
C5_FirstMatch ==
    /\ (wlog.fn = "checkCollision" /\ wlog.count <= asteroidsCapacity)
          => ReturnedFirstAsteroid
    /\ (wlog.fn = "checkSporeCollision" /\ wlog.count <= sporeCloudsCapacity)
          => ReturnedFirstSpore

\* the largest record count whose byte size is below 2^32 for both strides
NoWrap(capacity) == capacity < 268435456

\* C5 as far as it holds: the same, for buffers whose capacity was never set
\* from a record count whose byte size wrapped
C5_FirstMatchWithoutWrap ==
    /\ (wlog.fn = "checkCollision" /\ wlog.count <= asteroidsCapacity
          /\ NoWrap(asteroidsCapacity)) => ReturnedFirstAsteroid
    /\ (wlog.fn = "checkSporeCollision" /\ wlog.count <= sporeCloudsCapacity
          /\ NoWrap(sporeCloudsCapacity)) => ReturnedFirstSpore

\* C6: checkCollision and checkSporeCollision return -1 without a load and
\* without a trap when the record count is 0 or the buffer was never
\* allocated.
C6_EmptyGuard ==
    (wlog.fn \in {"checkCollision", "checkSporeCollision"}
        /\ (wlog.count = 0 \/ wlog.ptr0 = 0))
      => (~wlog.trap /\ wlog.value = -1 /\ wlog.loads = 0)

\* a query with records asked for on a buffer that was never allocated
C6_Witness ==
    /\ wlog.fn = "checkCollision"
    /\ wlog.count > 0
    /\ asteroidsPtr = 0
    /\ wlog.value = -1

\* C7: over any sequence of calls neither recorded capacity ever decreases.
C7_CapacityMonotone ==
    [][ /\ asteroidsCapacity' >= asteroidsCapacity
        /\ sporeCloudsCapacity' >= sporeCloudsCapacity ]_vars

\* allocAsteroids(m) returned after an earlier growth to n > m > 0
C7_Witness ==
    /\ wlog.fn = "allocAsteroids"
    /\ ~wlog.trap
    /\ 0 < wlog.count /\ wlog.count < wlog.cap0
    /\ asteroidsCapacity = wlog.cap0

\* C8: allocAsteroids(n) with n <= capacity calls neither heap.alloc nor
\* heap.realloc, leaves pointer and capacity as they were, and returns the
\* base address the previous call returned.
C8_FastPath ==
    (wlog.fn = "allocAsteroids" /\ wlog.count <= wlog.cap0) =>
        /\ ~wlog.trap
        /\ wlog.heapCalls = 0
        /\ asteroidsPtr = wlog.ptr0
        /\ asteroidsCapacity = wlog.cap0
        /\ wlog.value = wlog.ptr0
        /\ wlog.value = wlog.prevAstBase

\* allocAsteroids(n) with 0 < n = capacity on an allocated buffer
C8_Witness ==
    /\ wlog.fn = "allocAsteroids"
    /\ wlog.count > 0
    /\ wlog.count = wlog.cap0
    /\ wlog.value # 0

\* the block of the heap that starts at the address ptr holds n words
HoldsWords(ptr, n) == \E b \in heap : b.ptr = ptr /\ b.words >= n

\* C9: when allocAsteroids(n) or allocSporeClouds(n) returns normally with
\* n > 0, the returned address is non-zero, the block at it holds n records,
\* and the capacity is at least n.
C9_GrowthPostcondition ==
    /\ (wlog.fn = "allocAsteroids" /\ ~wlog.trap /\ wlog.count > 0) =>
          /\ wlog.value # 0
          /\ asteroidsCapacity >= wlog.count
          /\ HoldsWords(wlog.value, 3 * wlog.count)
    /\ (wlog.fn = "allocSporeClouds" /\ ~wlog.trap /\ wlog.count > 0) =>
          /\ wlog.value # 0
          /\ sporeCloudsCapacity >= wlog.count
          /\ HoldsWords(wlog.value, 4 * wlog.count)

\* C9 as far as it holds: the same, for record counts and capacities whose
\* byte size does not wrap
C9_GrowthWithoutWrap ==
    /\ (wlog.fn = "allocAsteroids" /\ ~wlog.trap /\ wlog.count > 0
          /\ NoWrap(asteroidsCapacity)) =>
          /\ wlog.value # 0
          /\ asteroidsCapacity >= wlog.count
          /\ HoldsWords(wlog.value, 3 * wlog.count)
    /\ (wlog.fn = "allocSporeClouds" /\ ~wlog.trap /\ wlog.count > 0
          /\ NoWrap(sporeCloudsCapacity)) =>
          /\ wlog.value # 0
          /\ sporeCloudsCapacity >= wlog.count
          /\ HoldsWords(wlog.value, 4 * wlog.count)


\* the reads of a scan that executed the given number of loads from ptr lie
\* in the block of the heap at ptr
ReadsWithin(ptr, loads) == loads = 0 \/ HoldsWords(ptr, loads)

\* heap.alloc or heap.realloc finds no room for a block of the given size
CannotGrow(hp, ptr, capacity, words) ==
    IF capacity = 0
    THEN Places(hp, words) = {}
    ELSE \A r \in HeapRealloc(hp, memory, ptr, words) : r.trap

\* C15: when the backing store cannot grow for allocAsteroids(n), the call
\* traps and leaves pointer and capacity as they were; a capacity the module
\* records is always backed by a block that holds that many records.
C15_LoudGrowthFailure ==
    /\ (wlog.fn = "allocAsteroids" /\ wlog.trap) =>
          (asteroidsCapacity = wlog.cap0 /\ asteroidsPtr = wlog.ptr0)
    /\ asteroidsCapacity > 0 => HoldsWords(asteroidsPtr, 3 * asteroidsCapacity)

\* C15 as far as it holds: a growth that finds no room traps, a trap leaves
\* pointer and capacity alone, and a capacity whose byte size did not wrap is
\* backed by a block of that many records
C15_LoudFailureWithoutWrap ==
    [][ wlog'.fn = "allocAsteroids" =>
          /\ (NeedsGrowth(wlog'.count, asteroidsCapacity)
                /\ CannotGrow(heap, asteroidsPtr, asteroidsCapacity,
                              AsteroidWords(wlog'.count))) => wlog'.trap
          /\ wlog'.trap => UNCHANGED <<asteroidsPtr, asteroidsCapacity, heap, memory>>
          /\ ((asteroidsCapacity > 0 /\ NoWrap(asteroidsCapacity)) =>
                HoldsWords(asteroidsPtr, 3 * asteroidsCapacity))' ]_vars

\* a growth of the asteroid buffer that found no room and trapped
C15_TrapReached ==
    /\ wlog.fn = "allocAsteroids"
    /\ wlog.trap
    /\ wlog.count > wlog.cap0
    /\ wlog.cap0 > 0

\* C18: a call of checkCollision or checkSporeCollision changes no pointer,
\* no capacity and no word of the memory, and a call repeated with the same
\* arguments right after returns the same result.
C18_ChecksArePure ==
    [][ wlog'.fn \in {"checkCollision", "checkSporeCollision"} =>
          /\ UNCHANGED <<asteroidsPtr, asteroidsCapacity, sporeCloudsPtr,
                         sporeCloudsCapacity, memory, heap>>
          /\ (wlog.fn = wlog'.fn /\ wlog.count = wlog'.count /\ wlog.q = wlog'.q) =>
                (wlog'.trap = wlog.trap /\ wlog'.value = wlog.value) ]_vars

\* a query that found its hit at the second record of the asteroid buffer
C18_Witness ==
    /\ wlog.fn = "checkCollision"
    /\ ~wlog.trap
    /\ wlog.value = 1
    /\ wlog.loads = 6

\* C19: allocSporeClouds leaves the asteroid pointer and capacity alone and
\* allocAsteroids the spore cloud pointer and capacity; a checkCollision over
\* N <= capacity records reads only words of the asteroid block, three per
\* record, and a checkSporeCollision only words of the spore cloud block,
\* four per record.
C19_BuffersIndependent ==
    [][ /\ wlog'.fn = "allocSporeClouds" => UNCHANGED <<asteroidsPtr, asteroidsCapacity>>
        /\ wlog'.fn = "allocAsteroids" => UNCHANGED <<sporeCloudsPtr, sporeCloudsCapacity>>
        /\ (wlog'.fn = "checkCollision" /\ wlog'.count <= asteroidsCapacity) =>
              /\ ~wlog'.trap
              /\ wlog'.loads % 3 = 0
              /\ ReadsWithin(asteroidsPtr, wlog'.loads)
        /\ (wlog'.fn = "checkSporeCollision" /\ wlog'.count <= sporeCloudsCapacity) =>
              /\ ~wlog'.trap
              /\ wlog'.loads % 4 = 0
              /\ ReadsWithin(sporeCloudsPtr, wlog'.loads) ]_vars

\* C19 as far as it holds: the same, for buffers whose capacity was never
\* set from a record count whose byte size wrapped
C19_IndependentWithoutWrap ==
    [][ /\ wlog'.fn = "allocSporeClouds" => UNCHANGED <<asteroidsPtr, asteroidsCapacity>>
        /\ wlog'.fn = "allocAsteroids" => UNCHANGED <<sporeCloudsPtr, sporeCloudsCapacity>>
        /\ (wlog'.fn = "checkCollision" /\ wlog'.count <= asteroidsCapacity
              /\ NoWrap(asteroidsCapacity)) =>
              /\ ~wlog'.trap
              /\ wlog'.loads % 3 = 0
              /\ ReadsWithin(asteroidsPtr, wlog'.loads)
        /\ (wlog'.fn = "checkSporeCollision" /\ wlog'.count <= sporeCloudsCapacity
              /\ NoWrap(sporeCloudsCapacity)) =>
              /\ ~wlog'.trap
              /\ wlog'.loads % 4 = 0
              /\ ReadsWithin(sporeCloudsPtr, wlog'.loads) ]_vars

\* the squared distance between the centres of the query q and the record
\* rec, both <<x, y, z, radius>>, and the square of the sum of their radii
CentreDistSq(q, rec) ==
    (q[1] - rec[1]) * (q[1] - rec[1]) + (q[2] - rec[2]) * (q[2] - rec[2])
        + (q[3] - rec[3]) * (q[3] - rec[3])

RadiiSq(q, rec) == (q[4] + rec[4]) * (q[4] + rec[4])

\* record j, as <<x, y, z, radius>>, of the buffer at ptr that the last call
\* scanned
RecordAt(mem, fn, ptr, j) ==
    IF fn = "checkCollision"
    THEN LET w == ptr \div 4 + 3 * j IN << mem[w], mem[w + 1], 0, mem[w + 2] >>
    ELSE LET w == ptr \div 4 + 4 * j
         IN  << mem[w], mem[w + 1], mem[w + 2], mem[w + 3] >>

\* C24: a scan that returns normally returns the first record whose squared
\* centre distance to the query is strictly below the square of the sum of
\* the radii, and -1 when there is none; a record at exactly that distance
\* is passed over and the records after it are still examined.  A scan
\* stores nothing, so the memory of the state it leaves is the memory it read.
C24_StrictOverlap ==
    (/\ wlog.fn \in {"checkCollision", "checkSporeCollision"}
     /\ ~wlog.trap /\ wlog.count > 0 /\ wlog.ptr0 # 0) =>
        LET v == wlog.value
            last == IF v >= 0 THEN v ELSE wlog.count - 1
            rec(j) == RecordAt(memory, wlog.fn, wlog.ptr0, j)
        IN  /\ v \in -1 .. (wlog.count - 1)
            /\ \A j \in 0 .. last :
                  (j = v) <=> (CentreDistSq(wlog.q, rec(j)) < RadiiSq(wlog.q, rec(j)))
            /\ \A j \in 0 .. last :
                  CentreDistSq(wlog.q, rec(j)) = RadiiSq(wlog.q, rec(j)) => j # v

\* checkCollision returned record 1 after a record 0 that touches the query
\* circle from outside
C24_Witness ==
    /\ wlog.fn = "checkCollision"
    /\ ~wlog.trap
    /\ wlog.value = 1
    /\ LET r0 == RecordAt(memory, wlog.fn, wlog.ptr0, 0)
       IN  /\ r0[4] > 0
           /\ CentreDistSq(wlog.q, r0) = RadiiSq(wlog.q, r0)


----------------------------------------------------------------------------
(* Properties of the game loop, checked under DriverSpec *)

\* C12: in every frame the record count updateObstacles hands to
\* checkCollision is the length of the asteroid list, allocAsteroids was
\* called with it earlier in the frame, it is at most the capacity, and the
\* scan neither traps nor reads outside the asteroid block.
C12_CountWithinCapacity ==
    dlog.checked =>
        /\ dlog.alloc
        /\ dlog.allocCount = dlog.checkCount
        /\ dlog.checkCount = Len(obstacles)
        /\ dlog.checkCount <= asteroidsCapacity
        /\ ~dlog.thrown
        /\ ReadsWithin(asteroidsPtr, dlog.loads)

\* a frame that scanned all its records after the list had shrunk below the
\* capacity
C12_Witness ==
    /\ dlog.checked
    /\ 0 < dlog.checkCount /\ dlog.checkCount < asteroidsCapacity
    /\ dlog.loads = 3 * dlog.checkCount

\* C13: in every frame that calls checkCollision with N records, each record
\* 0 .. N-1 was stored in that frame before the call and holds the position
\* and radius of the asteroid at its index.
C13_WrittenBeforeTest ==
    dlog.checked =>
        \A i \in 0 .. (dlog.checkCount - 1) :
            LET w == asteroidsPtr \div 4 + 3 * i
            IN  /\ i \in dlog.written
                /\ memory[w] = obstacles[i + 1].x
                /\ memory[w + 1] = obstacles[i + 1].y
                /\ memory[w + 2] = obstacles[i + 1].radius

\* a frame over two asteroids at different places that hit the second one
C13_Witness ==
    /\ dlog.checked
    /\ dlog.checkCount = 2
    /\ obstacles[1].x # obstacles[2].x
    /\ dlog.hitIndex = 1

\* C14: the records of a frame are stored at the base address the
\* allocAsteroids call of that frame returned, which is the module's
\* current pointer, through a view of the memory's current buffer.
C14_NoStaleBase ==
    dlog.checked =>
        /\ dlog.alloc
        /\ dlog.writeBase = dlog.base
        /\ dlog.base = asteroidsPtr
        /\ dlog.viewAtWrite = "current"
        /\ wasmMemory = "current"
        /\ HoldsWords(dlog.writeBase, 3 * dlog.checkCount)

\* a frame in which the growth moved the buffer and detached the view
C14_Witness ==
    /\ dlog.checked
    /\ dlog.ptr0 # 0
    /\ dlog.base # dlog.ptr0
    /\ dlog.refreshed
    /\ dlog.written = 0 .. (dlog.checkCount - 1)

\* C16: in every frame the emits of updatePlayer and handleCollision come
\* before the update call: no emit follows it, the update has aged every
\* particle the frame emitted, and the published count is the active count.
C16_EmitBeforeUpdate ==
    /\ (dlog.emits > 0 /\ ~dlog.thrown /\ ~dlog.displayThrown) => dlog.updated
    /\ dlog.updated =>
          /\ dlog.lateEmits = 0
          /\ plog.op = "update"
          /\ plog.count0 = dlog.countAtUpdate
          /\ ps.meshCount = ps.count
          /\ \A i \in LiveIdx : plog.decs[plog.src[i]] = 1 /\ ps.life[i] < ps.maxLife[i]

\* a frame with the engine trail and an explosion, whose particles were
\* aged and published
C16_Witness ==
    /\ dlog.emits = 3
    /\ dlog.updated
    /\ plog.count0 > 0
    /\ ps.count > 0
    /\ ps.meshCount = ps.count

\* C25: while playerState.invincible is true, that is from a hit until the
\* timeout of 2 s has reset it, no step reduces playerState.health.
C25_InvincibilityFrames ==
    [][ playerState.invincible => playerState'.health >= playerState.health ]_vars

\* C25 as far as it holds: health changes only in a frame whose collision
\* query reported a hit, by exactly one, and that frame leaves invincible set
C25_OneHealthPerHitFrame ==
    [][ playerState'.health # playerState.health =>
          /\ dlog'.hitIndex # -1
          /\ playerState'.health = playerState.health - 1
          /\ playerState'.invincible ]_vars

\* C26: playerState.health is at least 0 and at most playerState.maxHealth.
C26_HealthInRange ==
    playerState.health \in 0 .. playerState.maxHealth

\* C26 as far as it holds: health never exceeds maxHealth, and the frame
\* that takes it below 0 ends in the RangeError of the health display
C26_HealthAtMostMax ==
    /\ playerState.health <= playerState.maxHealth
    /\ dlog.displayThrown <=> (dlog.hitIndex # -1 /\ playerState.health < 0)

\* C27: up to and including the third hit (health 3, 2, 1 before it)
\* gameOver has not been called.
C27_SurvivesThreeHits ==
    (playerState.maxHealth - playerState.health <= 3) => playerState.gameOvers = 0

\* C27 as far as it holds: gameOver has not been called after the first and
\* the second hit, and has been called once health is 0 or less
C27_SurvivesTwoHits ==
    /\ (playerState.maxHealth - playerState.health <= 2) => playerState.gameOvers = 0
    /\ playerState.health <= 0 => playerState.gameOvers = 1

----------------------------------------------------------------------------
(* Properties of the level progression, checked under LevelSpec *)

\* C28: gameWin is called only in level 5, with the player within 10 world
\* units of the final level's distance 4200; never in a level below 5.
C28_WinOnlyAtFinalLevel ==
    dlog.won =>
        /\ levelManager.currentLevel = 5
        /\ player.x >= 2 * LevelDistance[5] - 2 * 10

\* C28 as far as it holds: the level follows the thresholds 500, 1200, 2200
\* and 3200, the moon distance is that of the level, and the player has won
\* exactly from 10 world units before the first level's distance on
C28_LevelsFollowThresholds ==
    player.loaded =>
        /\ levelManager.currentLevel =
              1 + Cardinality({ l \in 1 .. 4 : player.x > 2 * LevelDistance[l] })
        /\ playerState.distanceToMoon = 2 * LevelDistance[levelManager.currentLevel]
        /\ playerState.hasWon <=> (player.x >= 2 * LevelDistance[1] - 2 * 10)

----------------------------------------------------------------------------
(* Properties of the Magma Heart, checked under MagmaSpec *)

\* the phase that follows a phase in the cycle
NextPhase(phase) ==
    IF phase = "build" THEN "critical"
    ELSE IF phase = "critical" THEN "eruption"
    ELSE IF phase = "eruption" THEN "cooldown"
    ELSE "build"

\* C29: a call of updateMagmaHeart leaves the phase or moves it to the next
\* of build, critical, eruption, cooldown, build; the pressure is within
\* 0..80 % in build and within 80..100 % in critical, and it is 0 after the
\* call that ends the eruption.
C29_EruptionCycle ==
    /\ [](heart.phase = "build" => (0 <= heart.pressure /\ heart.pressure <= 4 * 80))
    /\ [](heart.phase = "critical" =>
             (4 * 80 <= heart.pressure /\ heart.pressure <= 4 * 100))
    /\ [][ /\ heart'.phase \in { heart.phase, NextPhase(heart.phase) }
           /\ (heart.phase = "eruption" /\ heart'.phase # "eruption") =>
                 heart'.pressure = 0 ]_vars

\* a call that ended the cooldown of a full cycle and started to build again
C29_Witness ==
    /\ hlog.called
    /\ hlog.phase0 = "cooldown"
    /\ heart.phase = "build"
    /\ heart.pressure = 0

----------------------------------------------------------------------------
(* Properties of the array-based ParticleSystem, checked under LegacySpec *)

\* C30: after an update call mesh.count is the number of particles left,
\* and each slot below it was stored in that call with the transform and
\* colour of the particle now at its index.
C30_LegacyLiveSet ==
    llog.op = "update" =>
        /\ legacy.meshCount = Len(legacy.particles)
        /\ \A i \in 0 .. (legacy.meshCount - 1) :
              /\ i \in llog.written
              /\ SlotOf(legacy.instanceMatrix, i, ZeroMatrix) =
                    LegacyMatrix(legacy.particles[i + 1])
              /\ SlotOf(legacy.instanceColor, i, <<0, 0, 0>>) =
                    legacy.particles[i + 1].color

\* C30 as far as it holds: mesh.count is the number of particles left, and
\* the slots agree with the particles after a call that removed none
C30_LegacyCountIsLive ==
    llog.op = "update" =>
        /\ legacy.meshCount = Len(legacy.particles)
        /\ llog.removed = 0 =>
              \A i \in 0 .. (legacy.meshCount - 1) :
                  /\ i \in llog.written
                  /\ SlotOf(legacy.instanceMatrix, i, ZeroMatrix) =
                        LegacyMatrix(legacy.particles[i + 1])
                  /\ SlotOf(legacy.instanceColor, i, <<0, 0, 0>>) =
                        legacy.particles[i + 1].color

=============================================================================
